---- MODULE Spec2Model ----
(***************************************************************************)
(* A model of the psc pseudocode interpreter: the lexer (src/src/lex.rs),  *)
(* the recursive-descent parser (src/src/parse.rs) and the tree-walking    *)
(* evaluator (src/src/eval.rs) driven by main (src/src/main.rs).           *)
(*                                                                         *)
(* Text (source programs, string literals, identifiers, input and output   *)
(* lines) is a sequence of one-character strings.  A Float is an exact     *)
(* rational n/d in lowest terms with d > 0; d = 0 encodes inf (n = 1),     *)
(* -inf (n = -1) and NaN (n = 0).  i64 is scaled down to IntBits bits.     *)
(***************************************************************************)
EXTENDS Integers, Sequences, FiniteSets, TLC

VARIABLES
    \* lex.rs, fn lex
    prog,           \* the source text being lexed
    lex_it,         \* number of characters the iterator `it` has consumed
    lex_ret,        \* the token vector `ret`
    lex_result,     \* "Lexing", "Ok" (Ok(ret)) or "Err" (Err(ParseError))
    lex_msg,        \* the ParseError message
    \* parse.rs, fn parse
    tokens,         \* the token vector handed to parse
    parse_it,       \* number of tokens the iterator `it` has consumed
    parse_ret,      \* the statement vector `ret`
    parse_result,   \* "Parsing", "Ok", "Err" or "Panic"
    parse_msg,      \* the ParseError message
    \* main.rs, fn main and eval.rs, Stmt::eval
    stmts,          \* the parsed program main iterates over
    vars,           \* the HashMap<String, PscObject>
    stdout,         \* lines written by println!
    stdin,          \* lines not yet read from standard input
    stack,          \* the activations of Stmt::eval (innermost last)
    result,         \* "Running", "Ok", "Err" or "Panic"
    msg,            \* the RuntimeError message
    overflow_checks \* whether the build panics on i64 overflow (debug) or wraps

lexVars == <<prog, lex_it, lex_ret, lex_result, lex_msg>>
parseVars == <<tokens, parse_it, parse_ret, parse_result, parse_msg>>
evalVars == <<stmts, vars, stdout, stdin, stack, result, msg, overflow_checks>>
allVars == <<prog, lex_it, lex_ret, lex_result, lex_msg,
             tokens, parse_it, parse_ret, parse_result, parse_msg,
             stmts, vars, stdout, stdin, stack, result, msg, overflow_checks>>

-----------------------------------------------------------------------------
(* Bounds of the model *)

\* i64 is modelled as a signed integer of IntBits bits
IntBits == 5
\* longest source text lexed, over LexAlphabet
MaxSrcLen == 4
\* longest unstructured token sequence parsed
MaxTokens == 3
\* most operators in an operator chain `a op b op c ...`
MaxChain == 3
\* most lines the model lets a run print
MaxOut == 4

I64_MAX == 2^(IntBits - 1) - 1
I64_MIN == -(2^(IntBits - 1))

-----------------------------------------------------------------------------
(* Characters *)

DigitSeq == <<"0", "1", "2", "3", "4", "5", "6", "7", "8", "9">>
UpperSeq == <<"A", "B", "C", "D", "E", "F", "G", "H", "I", "J", "K", "L", "M",
              "N", "O", "P", "Q", "R", "S", "T", "U", "V", "W", "X", "Y", "Z">>
LowerSeq == <<"a", "b", "c", "d", "e", "f", "g", "h", "i", "j", "k", "l", "m",
              "n", "o", "p", "q", "r", "s", "t", "u", "v", "w", "x", "y", "z">>

Range(s) == {s[i] : i \in DOMAIN s}

\* char::is_digit(10)
is_digit(c) == c \in Range(DigitSeq)
\* char::is_uppercase, on the ASCII letters and '_' that reach it
is_uppercase(c) == c \in Range(UpperSeq)
\* char::is_ascii_alphabetic
is_ascii_alphabetic(c) == c \in Range(UpperSeq) \cup Range(LowerSeq)
\* char::is_ascii_punctuation (the grave accent, which a string of this
\* language cannot hold, is left out)
is_ascii_punctuation(c) ==
    c \in {"!", "\"", "#", "$", "%", "&", "'", "(", ")", "*", "+", ",", "-",
           ".", "/", ":", ";", "<", "=", ">", "?", "@", "[", "\\", "]", "^",
           "_", "{", "|", "}", "~"}

DigitVal(c) == (CHOOSE i \in DOMAIN DigitSeq : DigitSeq[i] = c) - 1

\* char::to_lowercase on one character
LowerChar(c) ==
    IF c \in Range(UpperSeq)
    THEN LowerSeq[CHOOSE i \in DOMAIN UpperSeq : UpperSeq[i] = c]
    ELSE c

\* str::to_lowercase
to_lowercase(s) == [i \in DOMAIN s |-> LowerChar(s[i])]

-----------------------------------------------------------------------------
(* Numbers *)

Abs(x) == IF x < 0 THEN -x ELSE x

RECURSIVE Gcd(_, _)
Gcd(a, b) == IF b = 0 THEN a ELSE Gcd(b, a % b)

RECURSIVE Pow10(_)
Pow10(k) == IF k = 0 THEN 1 ELSE 10 * Pow10(k - 1)

\* the f64 with value n/d
Rat(n, d) ==
    IF d = 0
    THEN [n |-> IF n > 0 THEN 1 ELSE IF n < 0 THEN -1 ELSE 0, d |-> 0]
    ELSE LET g == Gcd(Abs(n), Abs(d))
             sg == IF d < 0 THEN -1 ELSE 1
         IN  [n |-> sg * (n \div g), d |-> sg * (d \div g)]

-----------------------------------------------------------------------------
(* lex.rs: tokens *)

Keyword(k) == [t |-> "Keyword", k |-> k]
Punctuation(p) == [t |-> "Punctuation", p |-> p]
IntLit(x) == [t |-> "IntLit", i |-> x]
FloatLit(x) == [t |-> "FloatLit", f |-> x]
BoolLit(x) == [t |-> "BoolLit", b |-> x]
StrLit(x) == [t |-> "StrLit", s |-> x]
Identifier(x) == [t |-> "Identifier", s |-> x]
\* Option::None, for a token or a character
None == [t |-> "None"]
EOF == "EOF"

\* LexerToken::from_identifier
from_identifier(keyword) ==
    CASE keyword = <<"l", "o", "o", "p">> -> Keyword("Loop")
      [] keyword = <<"w", "h", "i", "l", "e">> -> Keyword("While")
      [] keyword = <<"f", "r", "o", "m">> -> Keyword("From")
      [] keyword = <<"t", "o">> -> Keyword("To")
      [] keyword = <<"u", "n", "t", "i", "l">> -> Keyword("Until")
      [] keyword = <<"i", "f">> -> Keyword("If")
      [] keyword = <<"t", "h", "e", "n">> -> Keyword("Then")
      [] keyword = <<"e", "l", "s", "e">> -> Keyword("Else")
      [] keyword = <<"e", "n", "d">> -> Keyword("End")
      [] keyword = <<"i", "n", "p", "u", "t">> -> Keyword("Input")
      [] keyword = <<"o", "u", "t", "p", "u", "t">> -> Keyword("Output")
      [] keyword = <<"m", "o", "d">> -> Punctuation("Mod")
      [] keyword = <<"d", "i", "v">> -> Punctuation("FloorDiv")
      [] keyword = <<"t", "r", "u", "e">> -> BoolLit(TRUE)
      [] keyword = <<"f", "a", "l", "s", "e">> -> BoolLit(FALSE)
      [] OTHER -> None

\* Punctuation::precedence
precedence(op) ==
    CASE op = "Assign" -> 0
      [] op \in {"Equals", "GT", "LT", "GE", "LE"} -> 1
      [] op \in {"Plus", "Minus"} -> 2
      [] op \in {"Mul", "Div", "FloorDiv", "Mod"} -> 3

-----------------------------------------------------------------------------
(* lex.rs: fn lex.  Each arm of the match takes the text p and the number  *)
(* i of characters consumed so far, and returns the new count, the token   *)
(* pushed (None for none) and the error message ("" for none).             *)

Peek(p, i) == IF i < Len(p) THEN p[i + 1] ELSE EOF

ArmResult(i, tok, err) == [it |-> i, tok |-> tok, err |-> err]

\* the loop `while let Some(c) = it.next()` of the numeric arm; every
\* character it takes with it.next() is consumed, the one it breaks on too
RECURSIVE NumScan(_, _, _, _)
NumScan(p, i, buf, is_float) ==
    IF i >= Len(p)
    THEN [it |-> i, buf |-> buf, is_float |-> is_float, malformed |-> FALSE]
    ELSE LET c == p[i + 1] IN
         IF is_digit(c) THEN NumScan(p, i + 1, Append(buf, c), is_float)
         ELSE IF c = "." /\ ~is_float THEN NumScan(p, i + 1, Append(buf, "."), TRUE)
         ELSE IF c = "." /\ is_float
              THEN [it |-> i + 1, buf |-> buf, is_float |-> is_float, malformed |-> TRUE]
         ELSE [it |-> i + 1, buf |-> buf, is_float |-> is_float, malformed |-> FALSE]

\* str::parse::<i64> on a string of digits: -1 stands for Err (overflow)
RECURSIVE ParseDigits(_, _)
ParseDigits(buf, acc) ==
    IF buf = <<>> THEN acc
    ELSE LET x == acc * 10 + DigitVal(Head(buf)) IN
         IF x > I64_MAX THEN -1 ELSE ParseDigits(Tail(buf), x)

\* str::parse::<f64> on digits '.' digits: it cannot fail on such a string
ParseDecimal(buf) ==
    LET dot == CHOOSE k \in DOMAIN buf : buf[k] = "."
        digits == SelectSeq(buf, LAMBDA c : c # ".")
        RECURSIVE Val(_, _)
        Val(s, acc) == IF s = <<>> THEN acc ELSE Val(Tail(s), acc * 10 + DigitVal(Head(s)))
    IN  Rat(Val(digits, 0), Pow10(Len(buf) - dot))

LexNumber(p, i) ==
    LET r == NumScan(p, i, <<>>, FALSE) IN
    IF r.malformed THEN ArmResult(r.it, None, "Malformed float literal")
    ELSE IF r.is_float THEN ArmResult(r.it, FloatLit(ParseDecimal(r.buf)), "")
    ELSE LET x == ParseDigits(r.buf, 0) IN
         IF x = -1 THEN ArmResult(r.it, None, "Failed to parse int literal")
         ELSE ArmResult(r.it, IntLit(x), "")

\* the loop `while let Some(c) = it.next()` of the string arm
RECURSIVE StrScan(_, _, _)
StrScan(p, i, buf) ==
    IF i >= Len(p) THEN [it |-> i, buf |-> buf]
    ELSE IF p[i + 1] = "\"" THEN [it |-> i + 1, buf |-> buf]
    ELSE StrScan(p, i + 1, Append(buf, p[i + 1]))

LexString(p, i) ==
    LET r == StrScan(p, i + 1, <<>>) IN
    IF Peek(p, r.it) = EOF
    THEN ArmResult(r.it, None, "Failed to parse string literal")
    ELSE ArmResult(r.it, StrLit(r.buf), "")

\* the loop `while let Some(c) = it.next()` of the identifier arm
RECURSIVE IdentScan(_, _, _)
IdentScan(p, i, buf) ==
    IF i >= Len(p) THEN [it |-> i, buf |-> buf]
    ELSE IF is_ascii_alphabetic(p[i + 1]) \/ p[i + 1] = "_"
         THEN IdentScan(p, i + 1, Append(buf, p[i + 1]))
    ELSE [it |-> i + 1, buf |-> buf]

\* LexIdentifier without the test that the text is in upper case
LexIdentifierAnyCase(p, i) ==
    LET r == IdentScan(p, i, <<>>)
        tok == from_identifier(to_lowercase(r.buf))
    IN  IF tok # None THEN ArmResult(r.it, tok, "")
        ELSE ArmResult(r.it, Identifier(r.buf), "")

LexIdentifier(p, i) ==
    LET r == IdentScan(p, i, <<>>)
        tok == from_identifier(to_lowercase(r.buf))
    IN  IF tok # None THEN ArmResult(r.it, tok, "")
        ELSE IF \E k \in DOMAIN r.buf : ~is_uppercase(r.buf[k]) /\ r.buf[k] # "_"
             THEN ArmResult(r.it, None, "Invalid identifier")
        ELSE ArmResult(r.it, Identifier(r.buf), "")

LexPunctuation(p, i) ==
    LET c == p[i + 1]
        nxt == Peek(p, i + 1)
    IN  CASE c = "+" -> ArmResult(i + 1, Punctuation("Plus"), "")
          [] c = "-" -> ArmResult(i + 1, Punctuation("Minus"), "")
          [] c = "*" -> ArmResult(i + 1, Punctuation("Mul"), "")
          [] c = "/" -> ArmResult(i + 1, Punctuation("Div"), "")
          [] c = ">" /\ nxt = "=" -> ArmResult(i + 2, Punctuation("GE"), "")
          [] c = "<" /\ nxt = "=" -> ArmResult(i + 2, Punctuation("LE"), "")
          [] c = "=" /\ nxt = "=" -> ArmResult(i + 2, Punctuation("Equals"), "")
          [] c = "<" /\ nxt # "=" -> ArmResult(i + 1, Punctuation("LT"), "")
          [] c = ">" /\ nxt # "=" -> ArmResult(i + 1, Punctuation("GT"), "")
          [] c = "=" /\ nxt # "=" -> ArmResult(i + 1, Punctuation("Assign"), "")
          [] OTHER -> ArmResult(i + 1, None, "Invalid punctuation")

\* which arm of `match c` the peeked character selects
LexArmOf(c) ==
    IF c \in {" ", "\n", "\t"} THEN "Whitespace"
    ELSE IF is_digit(c) THEN "Number"
    ELSE IF c = "\"" THEN "String"
    ELSE IF is_ascii_alphabetic(c) THEN "Identifier"
    ELSE IF is_ascii_punctuation(c) THEN "Punctuation"
    ELSE "Unknown"

LexArm(p, i) ==
    LET arm == LexArmOf(p[i + 1]) IN
    CASE arm = "Whitespace" -> ArmResult(i + 1, None, "")
      [] arm = "Number" -> LexNumber(p, i)
      [] arm = "String" -> LexString(p, i)
      [] arm = "Identifier" -> LexIdentifier(p, i)
      [] arm = "Punctuation" -> LexPunctuation(p, i)
      [] arm = "Unknown" -> ArmResult(i, None, "Unknow char")

\* fn lex as a function of the whole text
RECURSIVE lex_from(_, _, _)
lex_from(p, i, ret) ==
    IF i >= Len(p) THEN [res |-> "Ok", ret |-> ret, msg |-> ""]
    ELSE LET r == LexArm(p, i) IN
         IF r.err # "" THEN [res |-> "Err", ret |-> <<>>, msg |-> r.err]
         ELSE lex_from(p, r.it, IF r.tok = None THEN ret ELSE Append(ret, r.tok))

lex(p) == lex_from(p, 0, <<>>)

-----------------------------------------------------------------------------
(* eval.rs: the syntax tree *)

Expr_IntLit(x) == [e |-> "IntLit", i |-> x]
Expr_FloatLit(x) == [e |-> "FloatLit", f |-> x]
Expr_BoolLit(x) == [e |-> "BoolLit", b |-> x]
Expr_StrLit(x) == [e |-> "StrLit", s |-> x]
Expr_Ident(x) == [e |-> "Ident", s |-> x]
Expr_BinOp(left, right, op) == [e |-> "BinOp", left |-> left, right |-> right, op |-> op]

Stmt_Assign(ident, expr) == [s |-> "Assign", ident |-> ident, expr |-> expr]
Stmt_Input(ident) == [s |-> "Input", ident |-> ident]
Stmt_Output(expr) == [s |-> "Output", expr |-> expr]
\* branches is a sequence of [cond, stmts]
Stmt_If(branches) == [s |-> "If", branches |-> branches]
Stmt_While(cond, body) == [s |-> "While", cond |-> cond, stmts |-> body]
Stmt_Until(cond, body) == [s |-> "Until", cond |-> cond, stmts |-> body]
Stmt_For(name, start, end, body) ==
    [s |-> "For", name |-> name, start |-> start, end |-> end, stmts |-> body]
Branch(cond, body) == [cond |-> cond, stmts |-> body]

-----------------------------------------------------------------------------
(* parse.rs.  Each function takes the token vector toks and the number i   *)
(* of tokens consumed, and returns Ok with a value and the new count, Err  *)
(* with a message, or Panic.                                               *)

POk(val, i) == [r |-> "Ok", val |-> val, it |-> i, msg |-> ""]
PErr(m) == [r |-> "Err", val |-> None, it |-> 0, msg |-> m]
PPanic(m) == [r |-> "Panic", val |-> None, it |-> 0, msg |-> m]

\* tokens.peek(); tokens.next() is the same token, consumed
PeekTok(toks, i) == IF i < Len(toks) THEN toks[i + 1] ELSE None

\* fn parse_atom
parse_atom(toks, i) ==
    LET tok == PeekTok(toks, i) IN
    CASE tok.t = "IntLit" -> POk(Expr_IntLit(tok.i), i + 1)
      [] tok.t = "FloatLit" -> POk(Expr_FloatLit(tok.f), i + 1)
      [] tok.t = "BoolLit" -> POk(Expr_BoolLit(tok.b), i + 1)
      [] tok.t = "StrLit" -> POk(Expr_StrLit(tok.s), i + 1)
      [] tok.t = "Identifier" -> POk(Expr_Ident(tok.s), i + 1)
      [] OTHER -> PErr("Failed to parse atom")

\* parse_bin_op with the right operand parsed at the caller's minimum
\* precedence instead of the operator's own
RECURSIVE parse_bin_op_caller_precedence(_, _, _, _)
parse_bin_op_caller_precedence(toks, i, left, prec) ==
    LET tok == PeekTok(toks, i) IN
    IF tok.t = "Punctuation" /\ tok.p # "Assign"
    THEN LET new_precedence == precedence(tok.p) IN
         IF new_precedence >= prec
         THEN LET next_atom == parse_atom(toks, i + 1) IN
              IF next_atom.r # "Ok" THEN next_atom
              ELSE LET right == parse_bin_op_caller_precedence(
                                    toks, next_atom.it, next_atom.val, prec)
                   IN  IF right.r # "Ok" THEN right
                       ELSE parse_bin_op_caller_precedence(
                                toks, right.it, Expr_BinOp(left, right.val, tok.p), prec)
         ELSE POk(left, i)
    ELSE POk(left, i)

\* fn parse_bin_op
RECURSIVE parse_bin_op(_, _, _, _)
parse_bin_op(toks, i, left, prec) ==
    LET tok == PeekTok(toks, i) IN
    IF tok.t = "Punctuation" /\ tok.p # "Assign"
    THEN LET new_precedence == precedence(tok.p) IN
         IF new_precedence >= prec
         THEN LET next_atom == parse_atom(toks, i + 1) IN
              IF next_atom.r # "Ok" THEN next_atom
              ELSE LET right == parse_bin_op(toks, next_atom.it, next_atom.val,
                                             new_precedence)
                   IN  IF right.r # "Ok" THEN right
                       ELSE parse_bin_op(toks, right.it,
                                         Expr_BinOp(left, right.val, tok.p), prec)
         ELSE POk(left, i)
    ELSE POk(left, i)

\* let left = parse_atom(tokens)?; parse_bin_op(tokens, left, 0)?
parse_expr(toks, i) ==
    LET left == parse_atom(toks, i) IN
    IF left.r # "Ok" THEN left ELSE parse_bin_op(toks, left.it, left.val, 0)

RECURSIVE parse_stmt(_, _)
RECURSIVE parse_if_loop(_, _, _)
RECURSIVE parse_body(_, _, _)

\* the loop of the If arm: `loop { match tokens.peek() { ... } }`
parse_if_loop(toks, i, branches) ==
    LET tok == PeekTok(toks, i) IN
    IF tok = Keyword("Else")
    THEN IF PeekTok(toks, i + 1) = Keyword("If")
         THEN LET cond == parse_expr(toks, i + 2) IN
              IF cond.r # "Ok" THEN cond
              ELSE parse_if_loop(toks, cond.it, Append(branches, Branch(cond.val, <<>>)))
         ELSE parse_if_loop(toks, i + 1,
                            Append(branches, Branch(Expr_BoolLit(TRUE), <<>>)))
    ELSE IF tok = Keyword("End")
    THEN IF PeekTok(toks, i + 1) # Keyword("If")
         THEN PErr("Failed to parse if stmt")
         ELSE POk(Stmt_If(branches), i + 2)
    ELSE LET st == parse_stmt(toks, i)
             len == Len(branches)
         IN  IF st.r # "Ok" THEN st
             ELSE parse_if_loop(toks, st.it,
                      [branches EXCEPT ![len].stmts = Append(@, st.val)])

\* while tokens.peek() != Some(End) { stmts.push(parse_stmt(tokens)?); }
parse_body(toks, i, body) ==
    IF PeekTok(toks, i) # Keyword("End")
    THEN LET st == parse_stmt(toks, i) IN
         IF st.r # "Ok" THEN st ELSE parse_body(toks, st.it, Append(body, st.val))
    ELSE POk(body, i)

\* the While and Until arms of `match tokens.next()` after LOOP
parse_cond_loop(toks, i, kind) ==
    LET cond == parse_expr(toks, i) IN
    IF cond.r # "Ok" THEN cond
    ELSE LET body == parse_body(toks, cond.it, <<>>) IN
         IF body.r # "Ok" THEN body
         ELSE IF PeekTok(toks, body.it + 1) # Keyword("Loop")
              THEN PErr("Failed to parse while stmt")
         ELSE IF kind = "While"
              THEN POk(Stmt_While(cond.val, body.val), body.it + 2)
              ELSE POk(Stmt_Until(cond.val, body.val), body.it + 2)

\* the Identifier arm of `match tokens.next()` after LOOP
parse_for(toks, i, name) ==
    IF PeekTok(toks, i) # Keyword("From")
    THEN PErr("Failed to parse 'from' in for stmt")
    ELSE LET start == parse_expr(toks, i + 1) IN
         IF start.r # "Ok" THEN start
         ELSE IF PeekTok(toks, start.it) # Keyword("To")
              THEN PErr("Failed to parse 'to' in for stmt")
         ELSE LET end == parse_expr(toks, start.it + 1) IN
              IF end.r # "Ok" THEN end
              ELSE LET body == parse_body(toks, end.it, <<>>) IN
                   IF body.r # "Ok" THEN body
                   ELSE IF PeekTok(toks, body.it + 1) # Keyword("Loop")
                        THEN PErr("Failed to parse stmt")
                   ELSE POk(Stmt_For(name, start.val, end.val, body.val), body.it + 2)

\* fn parse_stmt
parse_stmt(toks, i) ==
    LET tok == PeekTok(toks, i) IN
    CASE tok.t = "Identifier" ->
            IF PeekTok(toks, i + 1) = Punctuation("Assign")
            THEN LET expr == parse_expr(toks, i + 2) IN
                 IF expr.r # "Ok" THEN expr
                 ELSE POk(Stmt_Assign(tok.s, expr.val), expr.it)
            ELSE PPanic("unreachable")
      [] tok = Keyword("Input") ->
            LET ident == PeekTok(toks, i + 1) IN
            IF ident.t = "Identifier"
            THEN POk(Stmt_Input(ident.s), i + 2)
            ELSE PErr("Failed to parse input stmt")
      [] tok = Keyword("Output") ->
            LET expr == parse_expr(toks, i + 1) IN
            IF expr.r # "Ok" THEN expr ELSE POk(Stmt_Output(expr.val), expr.it)
      [] tok = Keyword("If") ->
            LET cond == parse_expr(toks, i + 1) IN
            IF cond.r # "Ok" THEN cond
            ELSE IF PeekTok(toks, cond.it) # Keyword("Then")
                 THEN PErr("Failed to parse if stmt")
            ELSE parse_if_loop(toks, cond.it + 1, <<Branch(cond.val, <<>>)>>)
      [] tok = Keyword("Loop") ->
            LET kind == PeekTok(toks, i + 1) IN
            IF kind = Keyword("While") THEN parse_cond_loop(toks, i + 2, "While")
            ELSE IF kind = Keyword("Until") THEN parse_cond_loop(toks, i + 2, "Until")
            ELSE IF kind.t = "Identifier" THEN parse_for(toks, i + 2, kind.s)
            ELSE PPanic("not yet implemented")
      [] OTHER -> PErr("Failed to parse stmt")

\* fn parse as a function of the whole token vector
RECURSIVE parse_from(_, _, _)
parse_from(toks, i, ret) ==
    IF i >= Len(toks) THEN [res |-> "Ok", ret |-> ret, msg |-> ""]
    ELSE LET st == parse_stmt(toks, i) IN
         IF st.r # "Ok" THEN [res |-> st.r, ret |-> <<>>, msg |-> st.msg]
         ELSE parse_from(toks, st.it, Append(ret, st.val))

parse(toks) == parse_from(toks, 0, <<>>)

-----------------------------------------------------------------------------
(* eval.rs: values *)

IntT(x) == [t |-> "IntT", i |-> x]
FloatT(x) == [t |-> "FloatT", f |-> x]
StringT(x) == [t |-> "StringT", s |-> x]
BoolT(x) == [t |-> "BoolT", b |-> x]

EOk(val) == [r |-> "Ok", val |-> val, msg |-> ""]
EErr(m) == [r |-> "Err", val |-> None, msg |-> m]
EPanic(m) == [r |-> "Panic", val |-> None, msg |-> m]

\* HashMap::new()
EmptyMap == [name \in {} |-> None]
\* HashMap::insert
Insert(map, key, val) ==
    [name \in DOMAIN map \cup {key} |-> IF name = key THEN val ELSE map[name]]

\* an i64 result x of + - *: in range it is x; out of range the build with
\* overflow checks panics and the build without them wraps
Wrap(x) == ((x - I64_MIN) % (2^IntBits)) + I64_MIN
IntArith(x, oc) ==
    IF I64_MIN <= x /\ x <= I64_MAX THEN EOk(IntT(x))
    ELSE IF oc THEN EPanic("arithmetic overflow")
    ELSE EOk(IntT(Wrap(x)))

\* l % r on i64: the remainder has the sign of l; a zero divisor and
\* MIN % -1 panic in every build
IntRem(l, r) ==
    IF r = 0 THEN EPanic("remainder with a divisor of zero")
    ELSE IF l = I64_MIN /\ r = -1 THEN EPanic("remainder with overflow")
    ELSE LET m == Abs(l) % Abs(r) IN EOk(IntT(IF l < 0 THEN -m ELSE m))

Sign(x) == IF x > 0 THEN 1 ELSE IF x < 0 THEN -1 ELSE 0

\* an f64 holds 53 significant bits, fewer than the 63 of an i64; the model
\* keeps the gap: its floats hold SigBits significant bits of an integer
SigBits == IntBits - 2

\* the number of low bits of m that do not fit in SigBits bits
RECURSIVE ExcessBits(_)
ExcessBits(m) == IF m < 2^SigBits THEN 0 ELSE 1 + ExcessBits(m \div 2)

\* m >= 0 rounded to SigBits significant bits, ties to the even significand
RoundToSig(m) ==
    LET unit == 2^ExcessBits(m)
        q == m \div unit
        r == m % unit
    IN  IF 2 * r > unit \/ (2 * r = unit /\ q % 2 = 1) THEN (q + 1) * unit
        ELSE q * unit

\* x as f64: the nearest float
AsF64(x) == Rat(Sign(x) * RoundToSig(Abs(x)), 1)

IsNaN(a) == a.d = 0 /\ a.n = 0
IsInf(a) == a.d = 0 /\ a.n # 0
NaN == Rat(0, 0)

\* f64 + - * / and % and floor, on the rationals standing for the floats
FAdd(a, b) ==
    IF IsNaN(a) \/ IsNaN(b) THEN NaN
    ELSE IF IsInf(a) /\ IsInf(b) THEN (IF a.n = b.n THEN a ELSE NaN)
    ELSE IF IsInf(a) THEN a
    ELSE IF IsInf(b) THEN b
    ELSE Rat(a.n * b.d + b.n * a.d, a.d * b.d)

FNeg(a) == [n |-> -a.n, d |-> a.d]
FSub(a, b) == FAdd(a, FNeg(b))

FMul(a, b) ==
    IF IsNaN(a) \/ IsNaN(b) THEN NaN
    ELSE IF IsInf(a) \/ IsInf(b) THEN Rat(Sign(a.n) * Sign(b.n), 0)
    ELSE Rat(a.n * b.n, a.d * b.d)

FDiv(a, b) ==
    IF IsNaN(a) \/ IsNaN(b) THEN NaN
    ELSE IF IsInf(a) THEN (IF IsInf(b) THEN NaN
                          ELSE Rat(a.n * (IF b.n < 0 THEN -1 ELSE 1), 0))
    ELSE IF IsInf(b) THEN Rat(0, 1)
    ELSE IF b.n = 0 THEN Rat(Sign(a.n), 0)
    ELSE Rat(a.n * b.d, a.d * b.n)

\* f64::floor written as a rounding towards zero
FFloorTowardsZero(a) ==
    IF a.d = 0 THEN a
    ELSE IF a.n >= 0 THEN Rat(a.n \div a.d, 1)
    ELSE Rat(-((-a.n) \div a.d), 1)

\* f64::floor
FFloor(a) == IF a.d = 0 THEN a ELSE Rat(a.n \div a.d, 1)

\* the quotient rounded towards zero
FTrunc(a) ==
    IF a.d = 0 THEN a
    ELSE IF a.n >= 0 THEN Rat(a.n \div a.d, 1)
    ELSE Rat(-((-a.n) \div a.d), 1)

FRem(a, b) ==
    IF IsNaN(a) \/ IsNaN(b) \/ IsInf(a) THEN NaN
    ELSE IF IsInf(b) THEN a
    ELSE IF b.n = 0 THEN NaN
    ELSE FSub(a, FMul(FTrunc(FDiv(a, b)), b))

\* (l > r, l == r, l < r) on f64: all false when either is NaN
FLess(a, b) ==
    /\ ~IsNaN(a)
    /\ ~IsNaN(b)
    /\ IF IsInf(a) THEN a.n < 0 /\ ~(IsInf(b) /\ b.n < 0)
       ELSE IF IsInf(b) THEN b.n > 0
       ELSE a.n * b.d < b.n * a.d
FEq(a, b) == ~IsNaN(a) /\ ~IsNaN(b) /\ a = b

IsNum(v) == v.t \in {"IntT", "FloatT"}
\* the operand as f64, for the arms with a Float operand
Widen(v) == IF v.t = "IntT" THEN AsF64(v.i) ELSE v.f

\* the match on (left, right) for one operator of Expr::eval
BinOpEval(op, l, r, oc) ==
    LET bothInt == l.t = "IntT" /\ r.t = "IntT"
        bothNum == IsNum(l) /\ IsNum(r)
        mismatched == EErr("Mismatched types")
    IN
    CASE op = "Plus" ->
            IF bothInt THEN IntArith(l.i + r.i, oc)
            ELSE IF bothNum THEN EOk(FloatT(FAdd(Widen(l), Widen(r))))
            ELSE IF l.t = "StringT" /\ r.t = "StringT" THEN EOk(StringT(l.s \o r.s))
            ELSE mismatched
      [] op = "Minus" ->
            IF bothInt THEN IntArith(l.i - r.i, oc)
            ELSE IF bothNum THEN EOk(FloatT(FSub(Widen(l), Widen(r))))
            ELSE mismatched
      [] op = "Mul" ->
            IF bothInt THEN IntArith(l.i * r.i, oc)
            ELSE IF bothNum THEN EOk(FloatT(FMul(Widen(l), Widen(r))))
            ELSE mismatched
      [] op = "Div" ->
            IF bothNum THEN EOk(FloatT(FDiv(Widen(l), Widen(r))))
            ELSE mismatched
      [] op = "FloorDiv" ->
            IF bothNum THEN EOk(FloatT(FFloor(FDiv(Widen(l), Widen(r)))))
            ELSE mismatched
      [] op = "Mod" ->
            IF bothInt THEN IntRem(l.i, r.i)
            ELSE IF bothNum THEN EOk(FloatT(FFloor(FRem(Widen(l), Widen(r)))))
            ELSE mismatched
      [] op \in {"GE", "LE", "GT", "LT"} ->
            IF ~bothNum THEN EPanic("not yet implemented")
            ELSE LET a == IF bothInt THEN l.i > r.i ELSE FLess(Widen(r), Widen(l))
                     b == IF bothInt THEN l.i = r.i ELSE FEq(Widen(l), Widen(r))
                     c == IF bothInt THEN l.i < r.i ELSE FLess(Widen(l), Widen(r))
                 IN  CASE op = "GE" -> EOk(BoolT(a \/ b))
                       [] op = "LE" -> EOk(BoolT(c \/ b))
                       [] op = "GT" -> EOk(BoolT(a))
                       [] op = "LT" -> EOk(BoolT(c))
      [] op = "Equals" ->
            IF bothInt THEN EOk(BoolT(l.i = r.i))
            ELSE IF bothNum THEN EOk(BoolT(FEq(Widen(l), Widen(r))))
            ELSE IF l.t = "StringT" /\ r.t = "StringT" THEN EOk(BoolT(l.s = r.s))
            ELSE IF l.t = "BoolT" /\ r.t = "BoolT" THEN EOk(BoolT(l.b = r.b))
            ELSE mismatched
      [] OTHER -> EPanic("not yet implemented")

\* Expr::eval with an identifier that has no binding read as Integer 0
RECURSIVE Expr_eval_unbound_is_zero(_, _, _)
Expr_eval_unbound_is_zero(expr, map, oc) ==
    CASE expr.e = "IntLit" -> EOk(IntT(expr.i))
      [] expr.e = "FloatLit" -> EOk(FloatT(expr.f))
      [] expr.e = "StrLit" -> EOk(StringT(expr.s))
      [] expr.e = "BoolLit" -> EOk(BoolT(expr.b))
      [] expr.e = "Ident" ->
            IF expr.s \in DOMAIN map THEN EOk(map[expr.s])
            ELSE EOk(IntT(0))
      [] expr.e = "BinOp" ->
            LET left == Expr_eval_unbound_is_zero(expr.left, map, oc) IN
            IF left.r # "Ok" THEN left
            ELSE LET right == Expr_eval_unbound_is_zero(expr.right, map, oc) IN
                 IF right.r # "Ok" THEN right
                 ELSE BinOpEval(expr.op, left.val, right.val, oc)

\* Expr::eval
RECURSIVE Expr_eval(_, _, _)
Expr_eval(expr, map, oc) ==
    CASE expr.e = "IntLit" -> EOk(IntT(expr.i))
      [] expr.e = "FloatLit" -> EOk(FloatT(expr.f))
      [] expr.e = "StrLit" -> EOk(StringT(expr.s))
      [] expr.e = "BoolLit" -> EOk(BoolT(expr.b))
      [] expr.e = "Ident" ->
            IF expr.s \in DOMAIN map THEN EOk(map[expr.s])
            ELSE EErr("Unknow identifier")
      [] expr.e = "BinOp" ->
            LET left == Expr_eval(expr.left, map, oc) IN
            IF left.r # "Ok" THEN left
            ELSE LET right == Expr_eval(expr.right, map, oc) IN
                 IF right.r # "Ok" THEN right
                 ELSE BinOpEval(expr.op, left.val, right.val, oc)

-----------------------------------------------------------------------------
(* eval.rs: text written by Output and read by Input *)

\* format!("{}", x) for a non-negative integer
RECURSIVE FormatNat(_)
FormatNat(x) ==
    IF x < 10 THEN <<DigitSeq[x + 1]>>
    ELSE Append(FormatNat(x \div 10), DigitSeq[(x % 10) + 1])

\* format!("{}", x) for an i64
FormatInt(x) == IF x < 0 THEN <<"-">> \o FormatNat(-x) ELSE FormatNat(x)

\* the digits after the decimal point of r/d, r < d: all of them when the
\* expansion ends, the first `left` of them otherwise
RECURSIVE FracDigits(_, _, _)
FracDigits(r, d, left) ==
    IF r = 0 \/ left = 0 THEN <<>>
    ELSE <<DigitSeq[((r * 10) \div d) + 1]>> \o FracDigits((r * 10) % d, d, left - 1)

\* format!("{}", x) for an f64: a whole number prints without a point
FormatFloat(a) ==
    IF IsNaN(a) THEN <<"N", "a", "N">>
    ELSE IF IsInf(a) THEN (IF a.n < 0 THEN <<"-", "i", "n", "f">> ELSE <<"i", "n", "f">>)
    ELSE LET m == Abs(a.n)
             whole == (IF a.n < 0 THEN <<"-">> ELSE <<>>) \o FormatNat(m \div a.d)
         IN  IF m % a.d = 0 THEN whole
             ELSE whole \o <<".">> \o FracDigits(m % a.d, a.d, 16)

\* the line println!("{}", x) writes for a value, without its terminator
Display(v) ==
    CASE v.t = "IntT" -> FormatInt(v.i)
      [] v.t = "FloatT" -> FormatFloat(v.f)
      [] v.t = "StringT" -> v.s
      [] v.t = "BoolT" -> IF v.b THEN <<"t", "r", "u", "e">> ELSE <<"f", "a", "l", "s", "e">>

IsSpace(c) == c \in {" ", "\n", "\t", "\r"}

\* str::trim
RECURSIVE TrimStart(_)
TrimStart(t) == IF t # <<>> /\ IsSpace(Head(t)) THEN TrimStart(Tail(t)) ELSE t
RECURSIVE TrimEnd(_)
TrimEnd(t) ==
    IF t # <<>> /\ IsSpace(t[Len(t)]) THEN TrimEnd(SubSeq(t, 1, Len(t) - 1)) ELSE t
trim(t) == TrimEnd(TrimStart(t))

AllDigits(t) == \A k \in DOMAIN t : is_digit(t[k])

\* the text without its leading sign, and the sign
Unsigned(t) == IF t # <<>> /\ Head(t) \in {"+", "-"} THEN Tail(t) ELSE t
SignOf(t) == IF t # <<>> /\ Head(t) = "-" THEN -1 ELSE 1

RECURSIVE DigitsValue(_, _)
DigitsValue(t, acc) ==
    IF t = <<>> THEN acc ELSE DigitsValue(Tail(t), acc * 10 + DigitVal(Head(t)))

\* str::parse::<i64>: a sign and digits, in range
ParsesAsI64(t) ==
    LET digits == Unsigned(t) IN
    /\ digits # <<>>
    /\ AllDigits(digits)
    /\ LET x == SignOf(t) * DigitsValue(digits, 0) IN I64_MIN <= x /\ x <= I64_MAX
ParseI64(t) == SignOf(t) * DigitsValue(Unsigned(t), 0)

\* str::parse::<f64>, on the texts without an exponent: a sign and then
\* digits with at most one point, or inf, infinity or nan in any case
ParsesAsF64(t) ==
    LET body == Unsigned(t)
        named == to_lowercase(body)
        digits == SelectSeq(body, LAMBDA c : c # ".")
    IN  \/ named \in {<<"i", "n", "f">>, <<"n", "a", "n">>,
                      <<"i", "n", "f", "i", "n", "i", "t", "y">>}
        \/ /\ digits # <<>>
           /\ AllDigits(digits)
           /\ Len(body) - Len(digits) <= 1
ParseF64(t) ==
    LET body == Unsigned(t)
        named == to_lowercase(body)
        digits == SelectSeq(body, LAMBDA c : c # ".")
        point == IF \E k \in DOMAIN body : body[k] = "."
                 THEN CHOOSE k \in DOMAIN body : body[k] = "."
                 ELSE Len(body)
    IN  IF named = <<"n", "a", "n">> THEN NaN
        ELSE IF named \in {<<"i", "n", "f">>, <<"i", "n", "f", "i", "n", "i", "t", "y">>}
             THEN Rat(SignOf(t), 0)
        ELSE Rat(SignOf(t) * DigitsValue(digits, 0), Pow10(Len(body) - point))

\* the value Input binds for the line read into buffer
Classify(buffer) ==
    LET striped_buffer == trim(buffer) IN
    IF striped_buffer = <<"t", "r", "u", "e">> THEN BoolT(TRUE)
    ELSE IF striped_buffer = <<"f", "a", "l", "s", "e">> THEN BoolT(FALSE)
    ELSE IF ParsesAsI64(striped_buffer) THEN IntT(ParseI64(striped_buffer))
    ELSE IF ParsesAsF64(striped_buffer) THEN FloatT(ParseF64(striped_buffer))
    ELSE StringT(buffer)

-----------------------------------------------------------------------------
(* Source texts *)

\* IF X > 0 THEN OUTPUT "pos" ELSE IF X < 0 THEN OUTPUT "neg" ELSE OUTPUT "zero" END IF
SrcIfElse ==
    <<"I", "F", " ", "X", " ", ">", " ", "0", " ", "T", "H", "E", "N", " ",
      "O", "U", "T", "P", "U", "T", " ", "\"", "p", "o", "s", "\"", " ", "E",
      "L", "S", "E", " ", "I", "F", " ", "X", " ", "<", " ", "0", " ", "T",
      "H", "E", "N", " ", "O", "U", "T", "P", "U", "T", " ", "\"", "n", "e",
      "g", "\"", " ", "E", "L", "S", "E", " ", "O", "U", "T", "P", "U", "T",
      " ", "\"", "z", "e", "r", "o", "\"", " ", "E", "N", "D", " ", "I", "F">>

\* LOOP I FROM 1 TO 3 OUTPUT I END LOOP
SrcCountingLoop ==
    <<"L", "O", "O", "P", " ", "I", " ", "F", "R", "O", "M", " ", "1", " ",
      "T", "O", " ", "3", " ", "O", "U", "T", "P", "U", "T", " ", "I", " ",
      "E", "N", "D", " ", "L", "O", "O", "P">>

\* 1+2
SrcSum ==
    <<"1", "+", "2">>

\* 1 + 2
SrcSumSpaced ==
    <<"1", " ", "+", " ", "2">>

\* X=1
SrcAssign ==
    <<"X", "=", "1">>

\* X = 1
SrcAssignSpaced ==
    <<"X", " ", "=", " ", "1">>

\* A>=B
SrcCompare ==
    <<"A", ">", "=", "B">>

\* A >= B
SrcCompareSpaced ==
    <<"A", " ", ">", "=", " ", "B">>

\* OUTPUT "a"
SrcOutputText ==
    <<"O", "U", "T", "P", "U", "T", " ", "\"", "a", "\"">>

\* IF X > 0 THEN OUTPUT "pos" ELSE IF X < 0 OUTPUT "neg" ELSE OUTPUT "zero" END IF
SrcIfChain ==
    <<"I", "F", " ", "X", " ", ">", " ", "0", " ", "T", "H", "E", "N", " ",
      "O", "U", "T", "P", "U", "T", " ", "\"", "p", "o", "s", "\"", " ", "E",
      "L", "S", "E", " ", "I", "F", " ", "X", " ", "<", " ", "0", " ", "O",
      "U", "T", "P", "U", "T", " ", "\"", "n", "e", "g", "\"", " ", "E", "L",
      "S", "E", " ", "O", "U", "T", "P", "U", "T", " ", "\"", "z", "e", "r",
      "o", "\"", " ", "E", "N", "D", " ", "I", "F">>

\* LOOP WHILE X < 3 X = X + 1 END LOOP
SrcWhile ==
    <<"L", "O", "O", "P", " ", "W", "H", "I", "L", "E", " ", "X", " ", "<",
      " ", "3", " ", "X", " ", "=", " ", "X", " ", "+", " ", "1", " ", "E",
      "N", "D", " ", "L", "O", "O", "P">>

\* LOOP UNTIL X >= 3 X = X + 1 END LOOP
SrcUntil ==
    <<"L", "O", "O", "P", " ", "U", "N", "T", "I", "L", " ", "X", " ", ">",
      "=", " ", "3", " ", "X", " ", "=", " ", "X", " ", "+", " ", "1", " ",
      "E", "N", "D", " ", "L", "O", "O", "P">>

\* INPUT X OUTPUT X
SrcEcho ==
    <<"I", "N", "P", "U", "T", " ", "X", " ", "O", "U", "T", "P", "U", "T",
      " ", "X">>

\* X = 1.5 Y = TRUE 
SrcLiterals ==
    <<"X", " ", "=", " ", "1", ".", "5", " ", "Y", " ", "=", " ", "T", "R",
      "U", "E", " ">>

\* IF X > 0 THEN OUTPUT X END IF 
SrcIfOnly ==
    <<"I", "F", " ", "X", " ", ">", " ", "0", " ", "T", "H", "E", "N", " ",
      "O", "U", "T", "P", "U", "T", " ", "X", " ", "E", "N", "D", " ", "I",
      "F", " ">>

\* X = 0 
SrcBindX0 ==
    <<"X", " ", "=", " ", "0", " ">>

\* X = 5 
SrcBindX5 ==
    <<"X", " ", "=", " ", "5", " ">>

\* OUTPUT X and a blank, ended by a carriage return and a line feed
SrcCarriageReturn ==
    <<"O", "U", "T", "P", "U", "T", " ", "X", " ", "\r", "\n">>

\* MY_VAR = 1 OUTPUT MY_VAR 
SrcUnderscore ==
    <<"M", "Y", "_", "V", "A", "R", " ", "=", " ", "1", " ", "O", "U", "T",
      "P", "U", "T", " ", "M", "Y", "_", "V", "A", "R", " ">>

\* If TRUE Then OUTPUT my_Var END IF 
SrcLowercase ==
    <<"I", "f", " ", "T", "R", "U", "E", " ", "T", "h", "e", "n", " ", "O",
      "U", "T", "P", "U", "T", " ", "m", "y", "_", "V", "a", "r", " ", "E",
      "N", "D", " ", "I", "F", " ">>

ExampleSources ==
    {SrcUnderscore, SrcLowercase, SrcIfOnly, SrcCarriageReturn, SrcLiterals, SrcIfChain, SrcWhile, SrcUntil, SrcEcho, SrcIfElse, SrcCountingLoop, SrcSum, SrcSumSpaced, SrcAssign,
     SrcAssignSpaced, SrcCompare, SrcCompareSpaced, SrcOutputText}

\* the characters the enumerated source texts are made of
LexAlphabet == {"1", ".", "\"", "I", "F", "i", "+", ">", "=", " ", "\r"}

RECURSIVE TextsUpTo(_, _)
TextsUpTo(alphabet, n) ==
    IF n = 0 THEN {<<>>}
    ELSE LET shorter == TextsUpTo(alphabet, n - 1) IN
         shorter \cup {Append(t, c) : t \in {u \in shorter : Len(u) = n - 1}, c \in alphabet}

Sources == TextsUpTo(LexAlphabet, MaxSrcLen) \cup ExampleSources

-----------------------------------------------------------------------------
(* The three stages at rest *)

LexIdle ==
    /\ prog = <<>>
    /\ lex_it = 0
    /\ lex_ret = <<>>
    /\ lex_result = "Idle"
    /\ lex_msg = ""

ParseIdle ==
    /\ tokens = <<>>
    /\ parse_it = 0
    /\ parse_ret = <<>>
    /\ parse_result = "Idle"
    /\ parse_msg = ""

EvalIdle ==
    /\ stmts = <<>>
    /\ vars = EmptyMap
    /\ stdout = <<>>
    /\ stdin = <<>>
    /\ stack = <<>>
    /\ result = "Idle"
    /\ msg = ""
    /\ overflow_checks = FALSE

-----------------------------------------------------------------------------
(* lex.rs: fn lex as a state machine, one step per iteration of            *)
(* `while let Some(c) = it.peek()`                                         *)

InitLex ==
    /\ prog \in Sources
    /\ lex_it = 0
    /\ lex_ret = <<>>
    /\ lex_result = "Lexing"
    /\ lex_msg = ""
    /\ ParseIdle
    /\ EvalIdle

\* it.peek() is Some(c) and c selects this arm of the match
LexAt(arm) ==
    /\ lex_result = "Lexing"
    /\ lex_it < Len(prog)
    /\ LexArmOf(prog[lex_it + 1]) = arm

\* what one iteration of the loop does to ret and it, or the early return
LexIteration ==
    LET r == LexArm(prog, lex_it) IN
    IF r.err # ""
    THEN /\ lex_result' = "Err"
         /\ lex_msg' = r.err
         /\ lex_ret' = <<>>
         /\ UNCHANGED lex_it
    ELSE /\ lex_it' = r.it
         /\ lex_ret' = IF r.tok = None THEN lex_ret ELSE Append(lex_ret, r.tok)
         /\ UNCHANGED <<lex_result, lex_msg>>

LexWhitespaceArm ==
    /\ LexAt("Whitespace")
    /\ LexIteration
    /\ UNCHANGED <<prog, parseVars, evalVars>>

LexNumberArm ==
    /\ LexAt("Number")
    /\ LexIteration
    /\ UNCHANGED <<prog, parseVars, evalVars>>

LexStringArm ==
    /\ LexAt("String")
    /\ LexIteration
    /\ UNCHANGED <<prog, parseVars, evalVars>>

LexIdentifierArm ==
    /\ LexAt("Identifier")
    /\ LexIteration
    /\ UNCHANGED <<prog, parseVars, evalVars>>

LexPunctuationArm ==
    /\ LexAt("Punctuation")
    /\ LexIteration
    /\ UNCHANGED <<prog, parseVars, evalVars>>

LexUnknownArm ==
    /\ LexAt("Unknown")
    /\ LexIteration
    /\ UNCHANGED <<prog, parseVars, evalVars>>

\* it.peek() is None: Ok(ret)
LexReturn ==
    /\ lex_result = "Lexing"
    /\ lex_it >= Len(prog)
    /\ lex_result' = "Ok"
    /\ UNCHANGED <<prog, lex_it, lex_ret, lex_msg, parseVars, evalVars>>

NextLex ==
    \/ LexWhitespaceArm
    \/ LexNumberArm
    \/ LexStringArm
    \/ LexIdentifierArm
    \/ LexPunctuationArm
    \/ LexUnknownArm
    \/ LexReturn

SpecLex == InitLex /\ [][NextLex]_allVars

-----------------------------------------------------------------------------
(* Claims about the lexer *)

IsTokenChar(c) == is_digit(c) \/ is_ascii_alphabetic(c) \/ c = "_"
IsOperatorChar(c) == c \in {"+", "-", "*", "/", ">", "<", "="}

\* the text p with a space put before and after every operator (one of
\* + - * / > < = >= <= ==) that directly follows a digit, letter or '_'
RECURSIVE SpacedFrom(_, _)
SpacedFrom(p, k) ==
    IF k > Len(p) THEN <<>>
    ELSE IF k > 1 /\ IsOperatorChar(p[k]) /\ IsTokenChar(p[k - 1])
         THEN IF p[k] \in {">", "<", "="} /\ k < Len(p) /\ p[k + 1] = "="
              THEN <<" ", p[k], "=", " ">> \o SpacedFrom(p, k + 2)
              ELSE <<" ", p[k], " ">> \o SpacedFrom(p, k + 1)
    ELSE <<p[k]>> \o SpacedFrom(p, k + 1)

Spaced(p) == SpacedFrom(p, 1)

\* C7: a finished lex of a text without string literals gives the result,
\* error or token sequence, that lexing the same text with spaces around
\* the operators written directly after a literal or identifier gives: the
\* character ending a number or an identifier is still lexed.
C7_OperatorAfterToken ==
    (lex_result \in {"Ok", "Err"} /\ "\"" \notin Range(prog))
        => LET spaced == lex(Spaced(prog)) IN
           /\ lex_result = spaced.res
           /\ lex_ret = spaced.ret

\* index of the first closing quote after the opening quote at p[i + 1],
\* 0 if there is none
ClosingQuote(p, i) ==
    IF \E k \in (i + 2)..Len(p) : p[k] = "\""
    THEN CHOOSE k \in (i + 2)..Len(p) :
             p[k] = "\"" /\ \A j \in (i + 2)..(k - 1) : p[j] # "\""
    ELSE 0

\* C8: a step of the lexer at an opening quote fails exactly when no closing
\* quote follows; when one follows, wherever it stands, the step pushes one
\* StrLit holding the characters between the quotes and consumes the literal.
C8_StringLiteral ==
    [][(lex_result = "Lexing" /\ Peek(prog, lex_it) = "\"")
         => LET close == ClosingQuote(prog, lex_it) IN
            IF close = 0
            THEN lex_result' = "Err"
            ELSE /\ lex_result' = "Lexing"
                 /\ lex_it' = close
                 /\ lex_ret' = Append(lex_ret,
                                      StrLit(SubSeq(prog, lex_it + 2, close - 1)))
      ]_allVars

\* the longest run of letters and underscores of p from position i on
RECURSIVE RunFrom(_, _)
RunFrom(p, i) ==
    IF i < Len(p) /\ (p[i + 1] \in Range(UpperSeq) \cup Range(LowerSeq) \/ p[i + 1] = "_")
    THEN <<p[i + 1]>> \o RunFrom(p, i + 1)
    ELSE <<>>

\* the run written in capitals
UpperSpelling(run) ==
    [k \in DOMAIN run |->
        IF run[k] \in Range(LowerSeq)
        THEN UpperSeq[CHOOSE n \in DOMAIN LowerSeq : LowerSeq[n] = run[k]]
        ELSE run[k]]

\* the run is a word of the keyword table in some letter case
InKeywordTable(run) == from_identifier(to_lowercase(run)) # None

-----------------------------------------------------------------------------
(* Token vectors handed to parse *)

BinaryOps ==
    {"Plus", "Minus", "Mul", "Div", "FloorDiv", "Mod",
     "Equals", "GT", "LT", "GE", "LE"}

Keywords ==
    {"Loop", "While", "From", "To", "Until", "If", "Then", "Else", "End",
     "Input", "Output"}

TokenAlphabet ==
    {Keyword(k) : k \in Keywords}
        \cup {Punctuation("Assign"), Punctuation("Plus"), IntLit(1),
              Identifier(<<"X">>)}

\* OUTPUT 1 ops[1] 2 ops[2] 3 ...
RECURSIVE ChainFrom(_, _)
ChainFrom(ops, k) ==
    IF k > Len(ops) THEN <<>>
    ELSE <<Punctuation(ops[k]), IntLit(k + 1)>> \o ChainFrom(ops, k + 1)

Chain(ops) == <<Keyword("Output"), IntLit(1)>> \o ChainFrom(ops, 1)

Chains == {Chain(ops) : ops \in UNION {[1..n -> BinaryOps] : n \in 1..MaxChain}}

\* the token vectors of the example texts that lex
ExampleTokens == {lex(src).ret : src \in {e \in ExampleSources : lex(e).res = "Ok"}}

DeleteAt(toks, k) == SubSeq(toks, 1, k - 1) \o SubSeq(toks, k + 1, Len(toks))

\* the example token vectors, whole, cut short, and with one token missing
DamagedTokens ==
    UNION {{SubSeq(toks, 1, k) : k \in 0..Len(toks)}
               \cup {DeleteAt(toks, k) : k \in 1..Len(toks)} : toks \in ExampleTokens}

TokenVectors == TextsUpTo(TokenAlphabet, MaxTokens) \cup Chains \cup DamagedTokens

-----------------------------------------------------------------------------
(* parse.rs: fn parse as a state machine, one step per iteration of        *)
(* `while let Some(_) = it.peek()`                                         *)

InitParse ==
    /\ tokens \in TokenVectors
    /\ parse_it = 0
    /\ parse_ret = <<>>
    /\ parse_result = "Parsing"
    /\ parse_msg = ""
    /\ LexIdle
    /\ EvalIdle

\* ret.push(parse_stmt(&mut it)?) with parse_stmt returning Ok
ParsePush ==
    /\ parse_result = "Parsing"
    /\ parse_it < Len(tokens)
    /\ \E st \in {parse_stmt(tokens, parse_it)} :
       /\ st.r = "Ok"
       /\ parse_it' = st.it
       /\ parse_ret' = Append(parse_ret, st.val)
    /\ UNCHANGED <<tokens, parse_result, parse_msg, lexVars, evalVars>>

\* ret.push(parse_stmt(&mut it)?) with parse_stmt returning Err
ParseFail ==
    /\ parse_result = "Parsing"
    /\ parse_it < Len(tokens)
    /\ \E st \in {parse_stmt(tokens, parse_it)} :
       /\ st.r = "Err"
       /\ parse_result' = "Err"
       /\ parse_msg' = st.msg
       /\ parse_ret' = <<>>
    /\ UNCHANGED <<tokens, parse_it, lexVars, evalVars>>

\* parse_stmt reaches unreachable!() or todo!()
ParsePanic ==
    /\ parse_result = "Parsing"
    /\ parse_it < Len(tokens)
    /\ \E st \in {parse_stmt(tokens, parse_it)} :
       /\ st.r = "Panic"
       /\ parse_result' = "Panic"
       /\ parse_msg' = st.msg
       /\ parse_ret' = <<>>
    /\ UNCHANGED <<tokens, parse_it, lexVars, evalVars>>

\* it.peek() is None: Ok(ret)
ParseReturn ==
    /\ parse_result = "Parsing"
    /\ parse_it >= Len(tokens)
    /\ parse_result' = "Ok"
    /\ UNCHANGED <<tokens, parse_it, parse_ret, parse_msg, lexVars, evalVars>>

NextParse ==
    \/ ParsePush
    \/ ParseFail
    \/ ParsePanic
    \/ ParseReturn

SpecParse == InitParse /\ [][NextParse]_allVars

-----------------------------------------------------------------------------
(* Claims about the parser *)

\* C2: an operator chain `1 op1 2 op2 3` whose two operators have the same
\* precedence parses to BinOp(BinOp(1, 2, op1), 3, op2).
C2_LeftAssociative ==
    \A op1, op2 \in BinaryOps :
        (/\ precedence(op1) = precedence(op2)
         /\ tokens = Chain(<<op1, op2>>)
         /\ parse_result = "Ok")
            => parse_ret =
                 <<Stmt_Output(Expr_BinOp(
                      Expr_BinOp(Expr_IntLit(1), Expr_IntLit(2), op1),
                      Expr_IntLit(3), op2))>>

\* the precedence levels as the claim states them
ClaimLevel(op) ==
    CASE op \in {"Equals", "GT", "LT", "GE", "LE"} -> 1
      [] op \in {"Plus", "Minus"} -> 2
      [] op \in {"Mul", "Div", "FloorDiv", "Mod"} -> 3

\* no BinOp of the expression has a child BinOp of lower precedence
RECURSIVE TighterBelow(_)
TighterBelow(expr) ==
    expr.e = "BinOp" =>
        /\ \A child \in {expr.left, expr.right} :
              child.e = "BinOp" => ClaimLevel(child.op) >= ClaimLevel(expr.op)
        /\ TighterBelow(expr.left)
        /\ TighterBelow(expr.right)

\* the expressions of a statement and of the statements nested in it
RECURSIVE ExprsOf(_)
ExprsOfAll(body) == UNION {ExprsOf(body[k]) : k \in DOMAIN body}
ExprsOf(stmt) ==
    CASE stmt.s \in {"Assign", "Output"} -> {stmt.expr}
      [] stmt.s = "Input" -> {}
      [] stmt.s = "If" ->
            UNION {{stmt.branches[k].cond} \cup ExprsOfAll(stmt.branches[k].stmts)
                       : k \in DOMAIN stmt.branches}
      [] stmt.s \in {"While", "Until"} -> {stmt.cond} \cup ExprsOfAll(stmt.stmts)
      [] stmt.s = "For" -> {stmt.start, stmt.end} \cup ExprsOfAll(stmt.stmts)

\* C3: in every expression of every statement the parser has returned, no
\* BinOp has a child BinOp whose operator has a lower precedence than its own.
C3_PrecedenceBindsTighter ==
    \A expr \in ExprsOfAll(parse_ret) : TighterBelow(expr)

\* a chain of MaxChain operators mixing precedence levels has been parsed
\* into a tree with a BinOp on both sides of its root
C3_Witness ==
    /\ parse_result = "Ok"
    /\ Len(tokens) = 2 + 2 * MaxChain
    /\ \E expr \in ExprsOfAll(parse_ret) :
          /\ expr.e = "BinOp"
          /\ expr.left.e = "BinOp"
          /\ expr.right.e = "BinOp"
          /\ ClaimLevel(expr.left.op) > ClaimLevel(expr.op)
          /\ ClaimLevel(expr.right.op) > ClaimLevel(expr.op)

\* C6: parse never aborts: it is at work or has returned Ok or a ParseError.
C6_ParseReturnsResult == parse_result \in {"Parsing", "Ok", "Err"}

-----------------------------------------------------------------------------
(* main.rs and eval.rs: the evaluator as a state machine.  stack holds the *)
(* statement loops in progress: a Block for each `for stmt in stmts`       *)
(* (main's and those of the bodies) and a frame for each If, While, Until  *)
(* and For activation of Stmt::eval.  A simple statement is one step.      *)

Block(body) == [k |-> "Block", stmts |-> body, pc |-> 1]
IfFrame(stmt) == [k |-> "If", stmt |-> stmt, j |-> 1]
LoopFrame(stmt) == [k |-> stmt.s, stmt |-> stmt]
\* next and last are the state of the iterator s..=e; entry (the map on
\* entry) and iters (the values bound at the start of each execution of the
\* body) are history kept for the statement of properties
ForFrame(stmt, s, e, entry) ==
    [k |-> "For", stmt |-> stmt, next |-> s, last |-> e, entry |-> entry, iters |-> <<>>]

Top == stack[Len(stack)]
Pop == SubSeq(stack, 1, Len(stack) - 1)
SetTop(frame) == [stack EXCEPT ![Len(stack)] = frame]
\* the enclosing loop over statements moves on to its next statement
Advance == [stack EXCEPT ![Len(stack)].pc = @ + 1]
Cur == Top.stmts[Top.pc]

Running == result = "Running" /\ stack # <<>>
\* Stmt::eval is called on a statement of this kind
AtStmt(kind) ==
    /\ Running
    /\ Top.k = "Block"
    /\ Top.pc <= Len(Top.stmts)
    /\ Cur.s = kind
AtFrame(kind) == Running /\ Top.k = kind

\* an error that is recorded while the run goes on with what follows
FailKeepsRunning(m) ==
    /\ msg' = m
    /\ stack' = IF Top.k = "Block" THEN Advance ELSE Pop
    /\ UNCHANGED <<stmts, vars, stdout, stdin, result, overflow_checks>>

\* return Err(RuntimeError), handed up by every `?` to main, which returns it
Fail(m) ==
    /\ result' = "Err"
    /\ msg' = m
    /\ UNCHANGED <<stmts, vars, stdout, stdin, stack, overflow_checks>>

\* a panic: todo!(), an arithmetic overflow, a zero divisor
Abort(m) ==
    /\ result' = "Panic"
    /\ msg' = m
    /\ UNCHANGED <<stmts, vars, stdout, stdin, stack, overflow_checks>>

\* Expr::eval(..)? when the evaluation did not return Ok
Raise(res) == IF res.r = "Err" THEN Fail(res.msg) ELSE Abort(res.msg)

\* Stmt::Assign
EvalAssign ==
    /\ AtStmt("Assign")
    /\ LET res == Expr_eval(Cur.expr, vars, overflow_checks) IN
       IF res.r = "Ok"
       THEN /\ vars' = Insert(vars, Cur.ident, res.val)
            /\ stack' = Advance
            /\ UNCHANGED <<stmts, stdout, stdin, result, msg, overflow_checks>>
       ELSE Raise(res)
    /\ UNCHANGED <<lexVars, parseVars>>

\* Stmt::Output
EvalOutput ==
    /\ AtStmt("Output")
    /\ LET res == Expr_eval(Cur.expr, vars, overflow_checks) IN
       IF res.r = "Ok"
       THEN /\ Len(stdout) < MaxOut
            /\ stdout' = Append(stdout, Display(res.val))
            /\ stack' = Advance
            /\ UNCHANGED <<stmts, vars, stdin, result, msg, overflow_checks>>
       ELSE Raise(res)
    /\ UNCHANGED <<lexVars, parseVars>>

\* Stmt::Input when read_line returns Ok: at end of input it returns Ok(0)
\* and leaves buffer empty
EvalInput ==
    /\ AtStmt("Input")
    /\ LET buffer == IF stdin = <<>> THEN <<>> ELSE Head(stdin) IN
       /\ vars' = Insert(vars, Cur.ident, Classify(buffer))
       /\ stdin' = IF stdin = <<>> THEN <<>> ELSE Tail(stdin)
    /\ stack' = Advance
    /\ UNCHANGED <<stmts, stdout, result, msg, overflow_checks, lexVars, parseVars>>

\* Stmt::Input when read_line returns Err: the read itself failed
EvalInputError ==
    /\ AtStmt("Input")
    /\ Fail("read_line failed")
    /\ UNCHANGED <<lexVars, parseVars>>

\* Stmt::If is entered
CallIf ==
    /\ AtStmt("If")
    /\ stack' = Append(Advance, IfFrame(Cur))
    /\ UNCHANGED <<stmts, vars, stdout, stdin, result, msg, overflow_checks,
                   lexVars, parseVars>>

\* IfTest without the `break` after the body: the later branches are
\* tested once the body has run
IfTestNoBreak ==
    /\ AtFrame("If")
    /\ Top.j <= Len(Top.stmt.branches)
    /\ LET branch == Top.stmt.branches[Top.j]
           res == Expr_eval(branch.cond, vars, overflow_checks)
       IN  IF res.r # "Ok" THEN Raise(res)
           ELSE IF res.val.t # "BoolT" THEN Fail("If expression not bool type")
           ELSE /\ stack' = IF res.val.b
                            THEN Append(SetTop([Top EXCEPT !.j = @ + 1]),
                                        Block(branch.stmts))
                            ELSE SetTop([Top EXCEPT !.j = @ + 1])
                /\ UNCHANGED <<stmts, vars, stdout, stdin, result, msg, overflow_checks>>
    /\ UNCHANGED <<lexVars, parseVars>>

\* one iteration of `for (cond, stmts) in &if_stmt.branches`
IfTest ==
    /\ AtFrame("If")
    /\ Top.j <= Len(Top.stmt.branches)
    /\ LET branch == Top.stmt.branches[Top.j]
           res == Expr_eval(branch.cond, vars, overflow_checks)
       IN  IF res.r # "Ok" THEN Raise(res)
           ELSE IF res.val.t # "BoolT" THEN Fail("If expression not bool type")
           ELSE /\ stack' = IF res.val.b
                            THEN SetTop(Block(branch.stmts))
                            ELSE SetTop([Top EXCEPT !.j = @ + 1])
                /\ UNCHANGED <<stmts, vars, stdout, stdin, result, msg, overflow_checks>>
    /\ UNCHANGED <<lexVars, parseVars>>

\* the branches are exhausted
IfEnd ==
    /\ AtFrame("If")
    /\ Top.j > Len(Top.stmt.branches)
    /\ stack' = Pop
    /\ UNCHANGED <<stmts, vars, stdout, stdin, result, msg, overflow_checks,
                   lexVars, parseVars>>

\* CallLoop with the body of an Until run once before the first test
CallLoopBodyFirst ==
    /\ \/ AtStmt("While")
       \/ AtStmt("Until")
    /\ stack' = IF Cur.s = "Until"
                THEN Append(Append(Advance, LoopFrame(Cur)), Block(Cur.stmts))
                ELSE Append(Advance, LoopFrame(Cur))
    /\ UNCHANGED <<stmts, vars, stdout, stdin, result, msg, overflow_checks,
                   lexVars, parseVars>>

\* Stmt::While or Stmt::Until is entered
CallLoop ==
    /\ \/ AtStmt("While")
       \/ AtStmt("Until")
    /\ stack' = Append(Advance, LoopFrame(Cur))
    /\ UNCHANGED <<stmts, vars, stdout, stdin, result, msg, overflow_checks,
                   lexVars, parseVars>>

\* one iteration of `loop { if let BoolT(b) = Expr::eval(cond)? { .. } }`:
\* the body runs when b is `runs`, the loop breaks when it is not, and a
\* condition that is no Boolean starts the next iteration at once
LoopTest(kind, runs) ==
    /\ AtFrame(kind)
    /\ LET res == Expr_eval(Top.stmt.cond, vars, overflow_checks) IN
       IF res.r # "Ok" THEN Raise(res)
       ELSE /\ stack' = IF res.val.t # "BoolT" THEN stack
                        ELSE IF res.val.b = runs THEN Append(stack, Block(Top.stmt.stmts))
                        ELSE Pop
            /\ UNCHANGED <<stmts, vars, stdout, stdin, result, msg, overflow_checks>>

WhileTest ==
    /\ LoopTest("While", TRUE)
    /\ UNCHANGED <<lexVars, parseVars>>

UntilTest ==
    /\ LoopTest("Until", FALSE)
    /\ UNCHANGED <<lexVars, parseVars>>

\* Stmt::For up to the loop: both bounds are evaluated, the variable is
\* inserted as IntT(0), and the range s..=e is built if both are IntT
CallFor ==
    /\ AtStmt("For")
    /\ LET start == Expr_eval(Cur.start, vars, overflow_checks)
           end == Expr_eval(Cur.end, vars, overflow_checks)
       IN  IF start.r # "Ok" THEN Raise(start)
           ELSE IF end.r # "Ok" THEN Raise(end)
           ELSE /\ vars' = Insert(vars, Cur.name, IntT(0))
                /\ stack' = IF start.val.t = "IntT" /\ end.val.t = "IntT"
                            THEN Append(Advance,
                                        ForFrame(Cur, start.val.i, end.val.i, vars))
                            ELSE Advance
                /\ UNCHANGED <<stmts, stdout, stdin, result, msg, overflow_checks>>
    /\ UNCHANGED <<lexVars, parseVars>>

\* ForNext with the end bound evaluated again before every iteration
ForNextEndAgain ==
    /\ AtFrame("For")
    /\ Top.next <= Top.last
    /\ vars' = Insert(vars, Top.stmt.name, IntT(Top.next))
    /\ LET end == Expr_eval(Top.stmt.end, vars, overflow_checks)
           last == IF end.r = "Ok" /\ end.val.t = "IntT" THEN end.val.i ELSE Top.last
       IN  stack' = Append(SetTop([Top EXCEPT !.next = @ + 1,
                                              !.last = last,
                                              !.iters = Append(@, vars'[Top.stmt.name])]),
                           Block(Top.stmt.stmts))
    /\ UNCHANGED <<stmts, stdout, stdin, result, msg, overflow_checks,
                   lexVars, parseVars>>

\* one iteration of `for i in s..=e`: *x = IntT(i), then the body
ForNext ==
    /\ AtFrame("For")
    /\ Top.next <= Top.last
    /\ vars' = Insert(vars, Top.stmt.name, IntT(Top.next))
    /\ stack' = Append(SetTop([Top EXCEPT !.next = @ + 1,
                                          !.iters = Append(@, vars'[Top.stmt.name])]),
                       Block(Top.stmt.stmts))
    /\ UNCHANGED <<stmts, stdout, stdin, result, msg, overflow_checks,
                   lexVars, parseVars>>

\* the range is exhausted
ForEnd ==
    /\ AtFrame("For")
    /\ Top.next > Top.last
    /\ stack' = Pop
    /\ UNCHANGED <<stmts, vars, stdout, stdin, result, msg, overflow_checks,
                   lexVars, parseVars>>

\* a body has run its last statement
BlockEnd ==
    /\ AtFrame("Block")
    /\ Top.pc > Len(Top.stmts)
    /\ Len(stack) > 1
    /\ stack' = Pop
    /\ UNCHANGED <<stmts, vars, stdout, stdin, result, msg, overflow_checks,
                   lexVars, parseVars>>

\* main has run its last statement: Ok(())
MainReturn ==
    /\ AtFrame("Block")
    /\ Top.pc > Len(Top.stmts)
    /\ Len(stack) = 1
    /\ result' = "Ok"
    /\ UNCHANGED <<stmts, vars, stdout, stdin, stack, msg, overflow_checks,
                   lexVars, parseVars>>

NextEval ==
    \/ EvalAssign
    \/ EvalOutput
    \/ EvalInput
    \/ EvalInputError
    \/ CallIf
    \/ IfTest
    \/ IfEnd
    \/ CallLoop
    \/ WhileTest
    \/ UntilTest
    \/ CallFor
    \/ ForNext
    \/ ForEnd
    \/ BlockEnd
    \/ MainReturn

-----------------------------------------------------------------------------
(* The programs evaluated: a prelude binding variables, one compound       *)
(* statement, and OUTPUT X after it                                        *)

vX == <<"X">>
vN == <<"N">>
vI == <<"I">>
vJ == <<"J">>
\* never assigned
vU == <<"U">>

Lit(x) == Expr_IntLit(x)
Var(name) == Expr_Ident(name)
Text(t) == Expr_StrLit(t)
XPlus1 == Expr_BinOp(Var(vX), Lit(1), "Plus")

SimpleStmts ==
    {Stmt_Assign(vX, XPlus1),
     Stmt_Assign(vI, Lit(5)),
     Stmt_Assign(vN, Lit(0)),
     Stmt_Output(Var(vX)),
     Stmt_Output(Var(vI)),
     Stmt_Output(Var(vU)),
     Stmt_Input(vX)}

NestedStmts ==
    {Stmt_If(<<Branch(Expr_BinOp(Var(vX), Lit(1), "GT"), <<Stmt_Output(Var(vU))>>)>>),
     Stmt_For(vJ, Lit(1), Lit(2), <<Stmt_Assign(vX, XPlus1)>>)}

BodyStmts == SimpleStmts \cup NestedStmts

Bodies ==
    {<<>>} \cup {<<a>> : a \in BodyStmts} \cup {<<a, b>> : a, b \in BodyStmts}

ForLoops ==
    {Stmt_For(vI, start, end, body) :
        start \in {Lit(1), Var(vX)},
        end \in {Lit(2), Var(vN), Var(vU), Expr_BoolLit(TRUE)},
        body \in Bodies}

WhileLoops ==
    {Stmt_While(cond, body) :
        cond \in {Expr_BinOp(Var(vX), Lit(2), "LT"), Expr_BoolLit(TRUE), Var(vX), Var(vU)},
        body \in Bodies}

UntilLoops ==
    {Stmt_Until(cond, body) :
        cond \in {Expr_BinOp(Var(vX), Lit(2), "GE"), Var(vX), Var(vU)},
        body \in Bodies}

IfConds ==
    {Expr_BinOp(Var(vX), Lit(0), "GT"), Expr_BinOp(Var(vX), Lit(0), "LT"),
     Expr_BoolLit(TRUE), Var(vX), Var(vU)}

IfBodies ==
    <<<<Stmt_Output(Text(<<"p", "o", "s">>))>>,
      <<Stmt_Output(Text(<<"n", "e", "g">>)), Stmt_Assign(vX, XPlus1)>>,
      <<Stmt_Output(Text(<<"z", "e", "r", "o">>))>>>>

Ifs ==
    {Stmt_If([k \in DOMAIN conds |-> Branch(conds[k], IfBodies[k])]) :
        conds \in UNION {[1..n -> IfConds] : n \in DOMAIN IfBodies}}

Preludes ==
    {<<>>,
     <<Stmt_Assign(vX, Lit(0)), Stmt_Assign(vN, Lit(2))>>,
     <<Stmt_Assign(vX, Lit(5)), Stmt_Assign(vN, Lit(1))>>,
     <<Stmt_Input(vX), Stmt_Input(vN)>>}

\* the operators of arithmetic
ArithOps == {"Plus", "Minus", "Mul", "Div", "FloorDiv", "Mod"}

\* INPUT X INPUT N I = X op N
ArithPrograms ==
    {<<Stmt_Input(vX), Stmt_Input(vN),
       Stmt_Assign(vI, Expr_BinOp(Var(vX), Var(vN), op))>> : op \in ArithOps}

Programs ==
    {prelude \o <<main, Stmt_Output(Var(vX))>> :
        prelude \in Preludes,
        main \in ForLoops \cup WhileLoops \cup UntilLoops \cup Ifs}
        \cup ArithPrograms

\* the lines standard input may hold
Line1 == <<"1", "\n">>
Line3 == <<" ", "3", "\n">>
LineTrue == <<"t", "r", "u", "e", "\n">>
LineText == <<"a", "b", "\n">>
Stdins ==
    {<<>>, <<Line1>>, <<Line1, Line3>>, <<LineTrue, LineText>>, <<Line3, Line1, Line1>>}

\* the lines the arithmetic programs read: every i64, two floats, a Boolean
\* and a text
LineFloat == <<"1", ".", "5", "\n">>
LineNegFloat == <<"-", "2", ".", "5", "\n">>
ArithLines ==
    {FormatInt(x) \o <<"\n">> : x \in I64_MIN..I64_MAX}
        \cup {LineFloat, LineNegFloat, LineTrue, LineText}
ArithStdins == {<<a, b>> : a, b \in ArithLines}

\* whether a statement list holds an Input statement
RECURSIVE ReadsInput(_)
ReadsInput(body) ==
    \E k \in DOMAIN body :
        LET st == body[k] IN
        CASE st.s = "Input" -> TRUE
          [] st.s = "If" -> \E b \in DOMAIN st.branches : ReadsInput(st.branches[b].stmts)
          [] st.s \in {"While", "Until", "For"} -> ReadsInput(st.stmts)
          [] OTHER -> FALSE

\* main after parse has returned Ok: an empty map, and the loop over stmts
InitEval ==
    /\ stmts \in Programs
    /\ vars = EmptyMap
    /\ stdout = <<>>
    /\ stdin \in (IF stmts \in ArithPrograms THEN ArithStdins
                  ELSE IF ReadsInput(stmts) THEN Stdins ELSE {<<>>})
    /\ stack = <<Block(stmts)>>
    /\ result = "Running"
    /\ msg = ""
    /\ overflow_checks \in BOOLEAN
    /\ LexIdle
    /\ ParseIdle

Spec == InitEval /\ [][NextEval]_allVars

-----------------------------------------------------------------------------
(* Claims about the evaluator *)

Eval(expr) == Expr_eval(expr, vars, overflow_checks)

\* <<IntT(s), IntT(s + 1), ..., IntT(e)>>
IntsFromTo(s, e) == [k \in 1..(IF e >= s THEN e - s + 1 ELSE 0) |-> IntT(s + k - 1)]

\* whether a statement list can rebind the name: by Assign, Input or For
RECURSIVE Rebinds(_, _)
Rebinds(body, name) ==
    \E k \in DOMAIN body :
        LET st == body[k] IN
        CASE st.s \in {"Assign", "Input"} -> st.ident = name
          [] st.s = "If" -> \E b \in DOMAIN st.branches : Rebinds(st.branches[b].stmts, name)
          [] st.s \in {"While", "Until"} -> Rebinds(st.stmts, name)
          [] st.s = "For" -> st.name = name \/ Rebinds(st.stmts, name)
          [] OTHER -> FALSE

\* C4: for every CountingLoop in progress, with s and e the Integers its
\* start and end evaluate to in the map on entry: the iterator still runs to
\* e, and the values the loop variable held at the start of the executions
\* of the body so far are s, s + 1, ... in ascending order, whatever the body
\* assigned; when the loop is about to end they are exactly s..e (none when
\* s > e), and if the body cannot rebind the variable and s <= e the
\* variable is Integer(e).
C4_CountingLoop ==
    \A d \in DOMAIN stack :
        stack[d].k = "For" =>
            LET f == stack[d]
                s == Expr_eval(f.stmt.start, f.entry, overflow_checks).val.i
                e == Expr_eval(f.stmt.end, f.entry, overflow_checks).val.i
            IN  /\ f.last = e
                /\ f.next = s + Len(f.iters)
                /\ f.iters = IntsFromTo(s, f.next - 1)
                /\ (d = Len(stack) /\ f.next > f.last) =>
                      /\ f.iters = IntsFromTo(s, e)
                      /\ (s <= e /\ ~Rebinds(f.stmt.stmts, f.stmt.name))
                            => vars[f.stmt.name] = IntT(e)

\* a loop is about to end after two or more executions of a body that
\* assigned the loop variable and the variable its end bound reads
C4_Witness ==
    /\ Running
    /\ Top.k = "For"
    /\ Top.next > Top.last
    /\ Len(Top.iters) >= 2
    /\ Top.stmt.end = Var(vN)
    /\ Top.stmt.stmts = <<Stmt_Assign(vI, Lit(5)), Stmt_Assign(vN, Lit(0))>>

\* index of the first branch whose condition does not evaluate to Boolean
\* false in the current map, 0 if there is none
FirstDecisive(branches) ==
    LET decisive == {k \in DOMAIN branches : Eval(branches[k].cond) # EOk(BoolT(FALSE))}
    IN  IF decisive = {} THEN 0
        ELSE CHOOSE k \in decisive : \A other \in decisive : k <= other

\* C5: while a Conditional is testing its branches, the branches before the
\* one tested have conditions that are Boolean false; a step of the test
\* changes neither the map nor the output; it passes over a false condition,
\* replaces the Conditional by the body of the first branch whose condition
\* is Boolean true (so no later condition is tested and no second body
\* runs), fails with a runtime error and no body at a condition that is no
\* Boolean or cannot be evaluated, and ends the statement when all are false.
C5_Conditional ==
    [][AtFrame("If") =>
         LET branches == Top.stmt.branches
             j == Top.j
             d == FirstDecisive(branches)
         IN  /\ d = 0 \/ j <= d
             /\ vars' = vars
             /\ stdout' = stdout
             /\ (j <= Len(branches) /\ j # d) =>
                   /\ result' = "Running"
                   /\ stack' = SetTop([Top EXCEPT !.j = j + 1])
             /\ j > Len(branches) => (result' = "Running" /\ stack' = Pop)
             /\ j = d =>
                   LET res == Eval(branches[d].cond) IN
                   IF res = EOk(BoolT(TRUE))
                   THEN /\ result' = "Running"
                        /\ stack' = SetTop(Block(branches[d].stmts))
                   ELSE /\ result' = IF res.r = "Panic" THEN "Panic" ELSE "Err"
                        /\ stack' = stack
      ]_allVars

\* a run ended Ok after the second of three branches ran, the third having
\* a condition that cannot be evaluated
C5_Witness ==
    /\ result = "Ok"
    /\ \E k \in DOMAIN stmts :
          /\ stmts[k].s = "If"
          /\ Len(stmts[k].branches) = 3
          /\ stmts[k].branches[3].cond = Var(vU)
    /\ stdout # <<>>
    /\ stdout[1] = <<"n", "e", "g">>

\* the evaluation about to be made returns a RuntimeError
StepFails ==
    /\ Running
    /\ \/ /\ Top.k = "Block"
          /\ Top.pc <= Len(Top.stmts)
          /\ \/ Cur.s \in {"Assign", "Output"} /\ Eval(Cur.expr).r = "Err"
             \/ Cur.s = "For" /\ Eval(Cur.start).r = "Err"
             \/ Cur.s = "For" /\ Eval(Cur.start).r = "Ok" /\ Eval(Cur.end).r = "Err"
       \/ /\ Top.k = "If"
          /\ Top.j <= Len(Top.stmt.branches)
          /\ LET res == Eval(Top.stmt.branches[Top.j].cond) IN
             res.r = "Err" \/ (res.r = "Ok" /\ res.val.t # "BoolT")
       \/ /\ Top.k \in {"While", "Until"}
          /\ Eval(Top.stmt.cond).r = "Err"

\* C9: a step whose evaluation returns a runtime error ends the run with
\* Err; the step that ends the run with Err changes neither the map nor the
\* output nor the statements in progress; and once the run has ended with
\* Err nothing changes any more, at whatever depth the error arose.
C9_FirstErrorTerminal ==
    [][/\ result # "Err"
       /\ StepFails => result' = "Err"
       /\ result' = "Err" => (vars' = vars /\ stdout' = stdout /\ stack' = stack)
      ]_allVars

\* a run has ended with Err inside a body nested in a loop, after output was
\* written and with statements of main still to run
C9_Witness ==
    /\ result = "Err"
    /\ Len(stack) >= 4
    /\ stdout # <<>>
    /\ stack[1].pc <= Len(stack[1].stmts)
    /\ Top.k = "Block"
    /\ Top.pc <= Len(Top.stmts)

\* C10: a step of an Input statement at end of input fails with a runtime
\* error and binds nothing; with input left, it fails or consumes exactly
\* one line.
C10_InputConsumesLine ==
    [][AtStmt("Input") =>
         IF stdin = <<>>
         THEN result' = "Err" /\ vars' = vars
         ELSE result' = "Err" \/ stdin' = Tail(stdin)
      ]_allVars

\* whether the evaluation of the expression, left operand first, comes to
\* an identifier that has no binding in the current map
RECURSIVE ReachesUnbound(_)
ReachesUnbound(expr) ==
    CASE expr.e = "Ident" -> expr.s \notin DOMAIN vars
      [] expr.e = "BinOp" ->
            \/ ReachesUnbound(expr.left)
            \/ Eval(expr.left).r = "Ok" /\ ReachesUnbound(expr.right)
      [] OTHER -> FALSE

\* C11: a step of an Output, an Assign or a CountingLoop whose expression
\* (for the loop: start, or end once start has a value) comes to an
\* identifier with no binding ends the run with the unbound-identifier
\* runtime error; the Output writes nothing, and the map is left as it was,
\* so neither the target nor the loop variable is bound.
C11_UnboundIdentifier ==
    [][/\ (AtStmt("Output") /\ ReachesUnbound(Cur.expr))
            => /\ result' = "Err"
               /\ msg' = "Unknow identifier"
               /\ stdout' = stdout
               /\ vars' = vars
       /\ (AtStmt("Assign") /\ ReachesUnbound(Cur.expr))
            => /\ result' = "Err"
               /\ msg' = "Unknow identifier"
               /\ vars' = vars
       /\ (/\ AtStmt("For")
           /\ \/ ReachesUnbound(Cur.start)
              \/ Eval(Cur.start).r = "Ok" /\ ReachesUnbound(Cur.end))
            => /\ result' = "Err"
               /\ msg' = "Unknow identifier"
               /\ vars' = vars
      ]_allVars

\* a CountingLoop whose end bound reads the unbound U has failed, with X
\* bound and the loop variable not
C11_Witness ==
    /\ result = "Err"
    /\ msg = "Unknow identifier"
    /\ Top.k = "Block"
    /\ Top.pc <= Len(Top.stmts)
    /\ Cur.s = "For"
    /\ Cur.end = Var(vU)
    /\ vX \in DOMAIN vars
    /\ Cur.name \notin DOMAIN vars

\* C14: a PostTestLoop that is entered stands at its test with the map as
\* it was; a step from the test with the condition Boolean true leaves the
\* loop with map and output as they were, and with it Boolean false starts
\* the body once; the body is started by no other step, and when it has run
\* the loop stands at its test again; and whenever the loop is left without
\* error its condition is Boolean true in the map it leaves.
C14_PostTestLoop ==
    [][/\ AtStmt("Until") =>
            /\ stack' = Append(Advance, LoopFrame(Cur))
            /\ vars' = vars
       /\ (Running /\ Top.k = "Until") =>
            /\ Eval(Top.stmt.cond) = EOk(BoolT(TRUE)) =>
                  /\ stack' = Pop
                  /\ vars' = vars
                  /\ stdout' = stdout
                  /\ result' = "Running"
            /\ Eval(Top.stmt.cond) = EOk(BoolT(FALSE)) =>
                  /\ stack' = Append(stack, Block(Top.stmt.stmts))
                  /\ vars' = vars
            /\ Len(stack') > Len(stack) => Eval(Top.stmt.cond) = EOk(BoolT(FALSE))
            /\ (Len(stack') < Len(stack) /\ result' = "Running") =>
                  Expr_eval(Top.stmt.cond, vars', overflow_checks) = EOk(BoolT(TRUE))
       /\ (/\ Running
           /\ Len(stack) >= 2
           /\ stack[Len(stack) - 1].k = "Until"
           /\ Top.k = "Block"
           /\ Top.pc > Len(Top.stmts)) =>
            stack' = Pop
      ]_allVars

\* the body X = X + 1 of LOOP UNTIL X >= 2 has run for the second time and
\* the condition has become true
C14_Witness ==
    /\ Running
    /\ Len(stack) >= 2
    /\ stack[Len(stack) - 1].k = "Until"
    /\ Top.k = "Block"
    /\ Top.pc > Len(Top.stmts)
    /\ Top.stmts = <<Stmt_Assign(vX, XPlus1)>>
    /\ vars[vX] = IntT(2)
    /\ Eval(stack[Len(stack) - 1].stmt.cond) = EOk(BoolT(TRUE))

\* a PreTestLoop or PostTestLoop stands at its test and the condition
\* evaluates to a value that is no Boolean
AtNonBooleanTest ==
    /\ Running
    /\ Top.k \in {"While", "Until"}
    /\ Eval(Top.stmt.cond).r = "Ok"
    /\ Eval(Top.stmt.cond).val.t # "BoolT"

\* C15: when the condition of a PreTestLoop or PostTestLoop evaluates to a
\* value that is no Boolean, the evaluator can take the step that leaves the
\* loop there: the body is not started, no error is raised, map and output
\* stay as they are, and the run goes on with what follows the loop.
C15_NonBooleanEndsLoop ==
    AtNonBooleanTest =>
        ENABLED (/\ NextEval
                 /\ stack' = Pop
                 /\ result' = "Running"
                 /\ vars' = vars
                 /\ stdout' = stdout)

\* C16: a CountingLoop that performs no iteration leaves the map as it was
\* before the loop: the step of a loop whose bounds are not both Integer
\* leaves it so, and so does the end of a loop that started no body.
C16_ZeroIterations ==
    [][/\ (/\ AtStmt("For")
           /\ Eval(Cur.start).r = "Ok"
           /\ Eval(Cur.end).r = "Ok"
           /\ ~(Eval(Cur.start).val.t = "IntT" /\ Eval(Cur.end).val.t = "IntT"))
            => vars' = vars
       /\ (/\ Running
           /\ Top.k = "For"
           /\ Top.iters = <<>>
           /\ Top.next > Top.last)
            => vars' = Top.entry
      ]_allVars

\* the arithmetic program has bound I: X and N hold the operands, I the
\* result, and the operator is the one of its Assign
ArithDone == stmts \in ArithPrograms /\ vI \in DOMAIN vars
ArithOp == stmts[3].expr.op

IsInteger(v) == v.t = "IntT"
IsFloat(v) == v.t = "FloatT"
IsNumeric(v) == IsInteger(v) \/ IsFloat(v)

\* the floor, towards negative infinity, of the exact quotient a/b, b # 0
FloorQuot(a, b) ==
    CHOOSE q \in -(2^IntBits)..(2^IntBits) :
        IF b > 0 THEN q * b <= a /\ a < (q + 1) * b
        ELSE q * b >= a /\ a > (q + 1) * b

\* the kinds of the results of + - * / div
KindsOfArithmetic ==
    LET a == vars[vX]
        b == vars[vN]
        v == vars[vI]
    IN  /\ (ArithOp \in {"Plus", "Minus", "Mul"} /\ IsInteger(a) /\ IsInteger(b))
              => IsInteger(v)
        /\ (ArithOp \in {"Plus", "Minus", "Mul"} /\ IsNumeric(a) /\ IsNumeric(b)
              /\ (IsFloat(a) \/ IsFloat(b)))
              => IsFloat(v)
        /\ (ArithOp \in {"Div", "FloorDiv"} /\ IsNumeric(a) /\ IsNumeric(b))
              => IsFloat(v)

\* C12 as stated: the kind of an arithmetic result depends only on the
\* operator and the operand kinds (+ - * give an Integer for two Integers
\* and a Float when a Float is among the operands, / and div give a Float
\* for every numeric pair), and for Integers a and b, b # 0, a div b is the
\* Float equal to the floor of the exact quotient a/b.
C12_ArithmeticKinds ==
    ArithDone =>
        /\ KindsOfArithmetic
        /\ (ArithOp = "FloorDiv" /\ IsInteger(vars[vX]) /\ IsInteger(vars[vN])
              /\ vars[vN].i # 0)
              => vars[vI] = FloatT([n |-> FloorQuot(vars[vX].i, vars[vN].i), d |-> 1])

\* an Integer that converts to Float without rounding: its magnitude is at
\* most 2^SigBits (2^53 for an f64)
ExactAsFloat(x) == -(2^SigBits) <= x /\ x <= 2^SigBits

\* C12 amended: the kinds are as stated, and for Integers a and b, b # 0,
\* a div b is the Float equal to the floor of the quotient of a and b as
\* converted to Float, which is the floor of the exact quotient a/b when
\* both convert without rounding.
C12_ArithmeticKindsAmended ==
    ArithDone =>
        /\ KindsOfArithmetic
        /\ (ArithOp = "FloorDiv" /\ IsInteger(vars[vX]) /\ IsInteger(vars[vN])
              /\ vars[vN].i # 0)
              => LET a == vars[vX].i
                     b == vars[vN].i
                 IN  /\ vars[vI] = FloatT([n |-> FloorQuot(AsF64(a).n, AsF64(b).n),
                                           d |-> 1])
                     /\ (ExactAsFloat(a) /\ ExactAsFloat(b))
                           => vars[vI] = FloatT([n |-> FloorQuot(a, b), d |-> 1])

\* -7 div 2 has given the Float -4
C12_Witness ==
    /\ ArithDone
    /\ ArithOp = "FloorDiv"
    /\ vars[vX] = IntT(-7)
    /\ vars[vN] = IntT(2)
    /\ vars[vI] = FloatT([n |-> -4, d |-> 1])

\* C17: with two Integers read as operands, the arithmetic operator returns
\* a value or a runtime error and the run is never aborted, and the only
\* runtime error an operator raises is the one for mismatched kinds, which
\* two Integers never raise.
C17_IntegerArithmeticTotal ==
    (/\ stmts \in ArithPrograms
     /\ vX \in DOMAIN vars
     /\ vN \in DOMAIN vars) =>
        /\ result = "Err" => msg = "Mismatched types"
        /\ (IsInteger(vars[vX]) /\ IsInteger(vars[vN]))
              => result \notin {"Panic", "Err"}

-----------------------------------------------------------------------------
(* main.rs: fn main, from the source text to the end of the run *)

MainSources ==
    ExampleSources
        \cup {SrcBindX0 \o src : src \in ExampleSources}
        \cup {SrcBindX5 \o src : src \in ExampleSources}

InitMain ==
    /\ prog \in MainSources
    /\ lex_it = 0
    /\ lex_ret = <<>>
    /\ lex_result = "Lexing"
    /\ lex_msg = ""
    /\ ParseIdle
    /\ stmts = <<>>
    /\ vars = EmptyMap
    /\ stdout = <<>>
    /\ stdin \in {<<>>, <<Line1>>}
    /\ stack = <<>>
    /\ result = "Idle"
    /\ msg = ""
    /\ overflow_checks \in BOOLEAN

\* let tokens = lex::lex(prog.as_str())?; parse::parse(tokens) is called
MainParse ==
    /\ lex_result = "Ok"
    /\ parse_result = "Idle"
    /\ tokens' = lex_ret
    /\ parse_it' = 0
    /\ parse_ret' = <<>>
    /\ parse_result' = "Parsing"
    /\ UNCHANGED <<parse_msg, lexVars, evalVars>>

\* let stmts = parse::parse(tokens)?; the map is created and the loop over
\* stmts begins
MainEval ==
    /\ parse_result = "Ok"
    /\ result = "Idle"
    /\ stmts' = parse_ret
    /\ vars' = EmptyMap
    /\ stack' = <<Block(parse_ret)>>
    /\ result' = "Running"
    /\ UNCHANGED <<stdout, stdin, msg, overflow_checks, lexVars, parseVars>>

NextMain ==
    \/ NextLex
    \/ MainParse
    \/ NextParse
    \/ MainEval
    \/ NextEval

SpecMain == InitMain /\ [][NextMain]_allVars

\* C1: the program IF X > 0 THEN OUTPUT "pos" ELSE IF X < 0 THEN OUTPUT
\* "neg" ELSE OUTPUT "zero" END IF, after X = 0 or X = 5, passes the lexer
\* and the parser, which returns it as one Conditional with three branches,
\* and the run ends Ok having written exactly zero for 0 and pos for 5.
C1_IfElseProgram ==
    \A x \in {0, 5} :
        prog = (IF x = 0 THEN SrcBindX0 ELSE SrcBindX5) \o SrcIfElse =>
            /\ lex_result \in {"Lexing", "Ok"}
            /\ parse_result \in {"Idle", "Parsing", "Ok"}
            /\ parse_result = "Ok" =>
                  /\ Len(parse_ret) = 2
                  /\ parse_ret[2].s = "If"
                  /\ Len(parse_ret[2].branches) = 3
            /\ result \in {"Idle", "Running", "Ok"}
            /\ result = "Ok" =>
                  stdout = IF x = 0 THEN <<<<"z", "e", "r", "o">>>>
                           ELSE <<<<"p", "o", "s">>>>

====
